---- MODULE Spec2Model ----
(***************************************************************************)
(* Model of src/.github/actions.py: a file-based package index.            *)
(*                                                                         *)
(* ActionHandler keeps the index in memory (_index, an insertion-ordered   *)
(* dict), persists it as JSON (index.json) and renders it with two         *)
(* templates: the index page (index.html) and one page per package         *)
(* (<normalized name>/index.html).                                         *)
(*                                                                         *)
(* Strings are sequences of one-character strings, so that normalize and   *)
(* the link's "#egg=" fragment are computed character by character.        *)
(***************************************************************************)
EXTENDS Naturals, Sequences, FiniteSets, TLC

(***************************************************************************)
(* Bounds of the model: the arguments the operations are called with.      *)
(* Display names and versions are the first NumNames / NumVersions         *)
(* elements of the lists below; links and homepages are fixed small sets.  *)
(* The names cover two spellings of one key ("A", "a"), the empty name,    *)
(* and names made of separators only.                                      *)
(***************************************************************************)
NumNames == 4

NumVersions == 2

\* SpecFault only: how many calls (and restarts) a behaviour makes.
MaxCalls == 3

\* SpecNormalize only: the longest string normalize is applied to.
MaxStrLen == 3

NameList ==
    << <<"A">>, <<"a">>, <<>>, <<"_">>, <<".", "-">>, <<"b">>, <<"B", "_", "a">> >>

VersionList == << <<"1">>, <<"2">>, <<"3">>, <<"4">> >>

Prefix(list, n) == {list[i] : i \in {j \in DOMAIN list : j <= n}}

Names == Prefix(NameList, NumNames)

Versions == Prefix(VersionList, NumVersions)

Homepages == { <<"h">> }

Links == { <<"l">>, <<"m">> }

(***************************************************************************)
(* normalize: re.sub(r"[-_.]+", "-", name).lower()                         *)
(***************************************************************************)
\* Mutant of IsSep: the character class without the dot, [-_]+.
IsSepNoDot(c) == c \in {"-", "_"}

IsSep(c) == c \in {"-", "_", "."}

Lower(c) ==
    CASE c = "A" -> "a"
      [] c = "B" -> "b"
      [] OTHER -> c

\* Mutant of IsSep: the character class without the dot, [-_]+.
\* Mutant of DropSeps: at most two separators make a run, [-_.]{1,2}.
DropSepsPair(s) ==
    IF Len(s) >= 2 /\ IsSep(s[1]) /\ IsSep(s[2]) THEN Tail(Tail(s))
    ELSE IF s # <<>> /\ IsSep(Head(s)) THEN Tail(s)
    ELSE s

RECURSIVE DropSeps(_)
DropSeps(s) ==
    IF s # <<>> /\ IsSep(Head(s)) THEN DropSeps(Tail(s)) ELSE s

RECURSIVE SubSeps(_)
SubSeps(s) ==
    IF s = <<>> THEN <<>>
    ELSE IF IsSep(Head(s)) THEN <<"-">> \o SubSeps(DropSeps(s))
    ELSE <<Head(s)>> \o SubSeps(Tail(s))

LowerStr(s) == [i \in DOMAIN s |-> Lower(s[i])]

\* Mutant of normalize: the result is not lowercased.
normalizeKeepCase(name) == SubSeps(name)

normalize(name) == LowerStr(SubSeps(name))

(***************************************************************************)
(* A Python dict with string keys: a function from its keys to its values. *)
(* The insertion order of the dict is not modelled: nothing but the order  *)
(* of the members in index.json and of the rows handed to the index        *)
(* template depends on it.                                                 *)
(***************************************************************************)
EmptyDict == <<>>

Keys(d) == DOMAIN d

Has(d, key) == key \in DOMAIN d

Get(d, key) == d[key]

SetItem(d, key, val) ==
    [x \in DOMAIN d \cup {key} |-> IF x = key THEN val ELSE d[x]]

Pop(d, key) == [x \in DOMAIN d \ {key} |-> d[x]]

Values(d) == {d[x] : x \in DOMAIN d}

(***************************************************************************)
(* A package entry: dict(name=, version=, homepage=, link=).               *)
(***************************************************************************)
EggFragment(norm_pkg_name, version) ==
    <<"#", "e", "g", "g", "=">> \o norm_pkg_name \o <<"-">> \o version

EggLink(link, norm_pkg_name, version) ==
    link \o EggFragment(norm_pkg_name, version)

NewEntry(pkg_name, version, homepage, link, norm_pkg_name) ==
    [name |-> pkg_name, version |-> version, homepage |-> homepage,
     link |-> EggLink(link, norm_pkg_name, version)]

\* Mutants of UpdatedEntry: the fragment appended to the stored link; the
\* link left as it was; the entry rebuilt from the normalized name.
UpdatedEntryAppend(entry, version, link, norm_pkg_name) ==
    [entry EXCEPT !.version = version,
                  !.link = entry.link \o EggFragment(norm_pkg_name, version)]

UpdatedEntryStaleLink(entry, version, link, norm_pkg_name) ==
    [entry EXCEPT !.version = version]

UpdatedEntryRebuilt(entry, version, link, norm_pkg_name) ==
    NewEntry(norm_pkg_name, version, <<>>, link, norm_pkg_name)

UpdatedEntry(entry, version, link, norm_pkg_name) ==
    [entry EXCEPT !.version = version,
                  !.link = EggLink(link, norm_pkg_name, version)]

(***************************************************************************)
(* json.dump / json.load of the index.  The file holds a JSON object: one  *)
(* member per key, each value an object of four string members.  Loading   *)
(* builds a dict with one item per member.                                 *)
(***************************************************************************)
JsonEntry(entry) ==
    { [key |-> "name", value |-> entry.name],
      [key |-> "version", value |-> entry.version],
      [key |-> "homepage", value |-> entry.homepage],
      [key |-> "link", value |-> entry.link] }

\* Mutant of JsonDump: the members are keyed by the display name.
JsonDumpByName(idx) ==
    { [key |-> idx[x].name, value |-> JsonEntry(idx[x])] : x \in DOMAIN idx }

JsonDump(idx) ==
    { [key |-> x, value |-> JsonEntry(idx[x])] : x \in DOMAIN idx }

JsonMember(obj, key) == (CHOOSE m \in obj : m.key = key).value

LoadEntry(obj) ==
    [name |-> JsonMember(obj, "name"), version |-> JsonMember(obj, "version"),
     homepage |-> JsonMember(obj, "homepage"), link |-> JsonMember(obj, "link")]

JsonLoad(obj) ==
    [x \in {m.key : m \in obj} |-> LoadEntry(JsonMember(obj, x))]

(***************************************************************************)
(* Rendering: the template engine is an external collaborator; a rendered  *)
(* page is the template's name together with the context handed to it.     *)
(***************************************************************************)
RenderPkg(entry) ==
    [kind |-> "html", template |-> "pkg.html", context |-> entry]

RenderIndex(idx) ==
    [kind |-> "html", template |-> "index.html",
     context |-> [index |-> Values(idx)]]

JsonFile(idx) == [kind |-> "json", data |-> JsonDump(idx)]

(***************************************************************************)
(* The file system under the working directory.  A path is a directory     *)
(* and a file name; the directory Path(norm_pkg_name) of the empty name is *)
(* the working directory itself (Path("") is ".").                         *)
(***************************************************************************)
Cwd == <<>>

PACKAGE_INDEX == <<Cwd, "index.json">>

INDEX_TEMPLATE == <<Cwd, "index.html">>

PkgDir(norm_pkg_name) == norm_pkg_name

PkgPage(norm_pkg_name) == <<PkgDir(norm_pkg_name), "index.html">>

WriteFile(files, path, contents) ==
    [p \in DOMAIN files \cup {path} |-> IF p = path THEN contents ELSE files[p]]

RemoveTree(files, dir) ==
    [p \in {q \in DOMAIN files : q[1] # dir} |-> files[p]]

(***************************************************************************)
(* State.                                                                  *)
(*   index  ActionHandler._index                                           *)
(*   files  the regular files under the working directory                  *)
(*   dirs   the directories that exist (the working directory included)    *)
(*   last   the last call: its arguments, how it ended, and the file       *)
(*          system effects it performed, in order                          *)
(*   calls  SpecFault only: how many calls and restarts were made so far    *)
(***************************************************************************)
VARIABLES index, files, dirs, last, calls

vars == <<index, files, dirs, last, calls>>

NoArg == <<>>

Call(op, d, v, h, l, result, trace) ==
    [op |-> op, d |-> d, v |-> v, h |-> h, l |-> l, result |-> result,
     trace |-> trace]

(***************************************************************************)
(* The file system effects of the handlers, in program order.              *)
(*   dump_index: write the index file, then the index page                 *)
(*   dump_pkg:   mkdir(exist_ok=True), then write the package page         *)
(*   delete:     shutil.rmtree, then dump_index                            *)
(***************************************************************************)
Eff(name, n) == [eff |-> name, n |-> n]

dump_index == << Eff("write_index_file", NoArg), Eff("write_index_page", NoArg) >>

dump_pkg(norm_pkg_name) ==
    << Eff("mkdir", norm_pkg_name), Eff("write_pkg_page", norm_pkg_name) >>

RegisterEffects(norm_pkg_name) == dump_index \o dump_pkg(norm_pkg_name)

UpdateEffects(norm_pkg_name) == dump_index \o dump_pkg(norm_pkg_name)

\* Mutant of DeleteEffects: the package directory is left in place.
DeleteEffectsKeepTree(norm_pkg_name) == dump_index

DeleteEffects(norm_pkg_name) == << Eff("rmtree", norm_pkg_name) >> \o dump_index

\* shutil.rmtree raises FileNotFoundError for a missing directory, and for
\* the empty path (os.lstat("") fails).
CanApply(e, ds) ==
    e.eff = "rmtree" => (e.n # <<>> /\ PkgDir(e.n) \in ds)

ApplyFiles(e, idx, fs) ==
    CASE e.eff = "write_index_file" -> WriteFile(fs, PACKAGE_INDEX, JsonFile(idx))
      [] e.eff = "write_index_page" -> WriteFile(fs, INDEX_TEMPLATE, RenderIndex(idx))
      [] e.eff = "write_pkg_page" -> WriteFile(fs, PkgPage(e.n), RenderPkg(Get(idx, e.n)))
      [] e.eff = "rmtree" -> RemoveTree(fs, PkgDir(e.n))
      [] OTHER -> fs

ApplyDirs(e, ds) ==
    CASE e.eff = "mkdir" -> ds \cup {PkgDir(e.n)}
      [] e.eff = "rmtree" -> ds \ {PkgDir(e.n)}
      [] OTHER -> ds

\* Runs effs[i..] on the file system with the in-memory index idx.  Only the
\* first k effects can complete: k < Len(effs) is a storage failure (or a
\* crash) at effect k + 1.
RECURSIVE Run(_, _, _, _, _, _, _)
Run(effs, i, k, idx, fs, ds, trace) ==
    IF i > Len(effs)
    THEN [files |-> fs, dirs |-> ds, trace |-> trace, result |-> "ok"]
    ELSE IF i > k
    THEN [files |-> fs, dirs |-> ds, trace |-> trace, result |-> "StorageIOError"]
    ELSE IF ~CanApply(effs[i], ds)
    THEN [files |-> fs, dirs |-> ds, trace |-> trace, result |-> "FileNotFoundError"]
    ELSE Run(effs, i + 1, k, idx, ApplyFiles(effs[i], idx, fs),
             ApplyDirs(effs[i], ds), Append(trace, effs[i]))

(***************************************************************************)
(* ActionHandler.  In the handlers, \E x \in {e} names the value of e      *)
(* (the new mapping, the outcome of the file system calls).                *)
(***************************************************************************)
is_package_registered(idx, pkg_name) == Has(idx, pkg_name)

\* __init__: load the index file if it exists, else start empty.
LoadIndex(fs) ==
    IF PACKAGE_INDEX \in DOMAIN fs THEN JsonLoad(fs[PACKAGE_INDEX].data)
    ELSE EmptyDict

Init ==
    /\ index = EmptyDict
    /\ files = <<>>
    /\ dirs = {Cwd}
    /\ last = Call("init", NoArg, NoArg, NoArg, NoArg, "ok", <<>>)
    /\ calls = 0

\* A new process: a new ActionHandler on the same working directory.
Restart ==
    /\ index' = LoadIndex(files)
    /\ UNCHANGED <<files, dirs>>
    /\ last' = Call("init", NoArg, NoArg, NoArg, NoArg, "ok", <<>>)

\* Mutant of Register: the check looks up the name as given, not normalized.
RegisterRawCheck(pkg_name, version, homepage, link, k) ==
    LET norm_pkg_name == normalize(pkg_name) IN
    IF is_package_registered(index, pkg_name)
    THEN /\ last' = Call("register", pkg_name, NoArg, NoArg, NoArg,
                         "already_registered", <<>>)
         /\ UNCHANGED <<index, files, dirs>>
    ELSE \E idx \in {SetItem(index, norm_pkg_name,
                            NewEntry(pkg_name, version, homepage, link, norm_pkg_name))} :
         \E r \in {Run(RegisterEffects(norm_pkg_name), 1, k, idx, files, dirs, <<>>)} :
            /\ index' = idx
            /\ files' = r.files
            /\ dirs' = r.dirs
            /\ last' = Call("register", pkg_name, version, homepage, link,
                            r.result, r.trace)

Register(pkg_name, version, homepage, link, k) ==
    LET norm_pkg_name == normalize(pkg_name) IN
    IF is_package_registered(index, norm_pkg_name)
    THEN /\ last' = Call("register", pkg_name, NoArg, NoArg, NoArg,
                         "already_registered", <<>>)
         /\ UNCHANGED <<index, files, dirs>>
    ELSE \E idx \in {SetItem(index, norm_pkg_name,
                            NewEntry(pkg_name, version, homepage, link, norm_pkg_name))} :
         \E r \in {Run(RegisterEffects(norm_pkg_name), 1, k, idx, files, dirs, <<>>)} :
            /\ index' = idx
            /\ files' = r.files
            /\ dirs' = r.dirs
            /\ last' = Call("register", pkg_name, version, homepage, link,
                            r.result, r.trace)

Update(pkg_name, version, link, k) ==
    LET norm_pkg_name == normalize(pkg_name) IN
    IF ~is_package_registered(index, norm_pkg_name)
    THEN /\ last' = Call("update", pkg_name, NoArg, NoArg, NoArg,
                         "not_registered", <<>>)
         /\ UNCHANGED <<index, files, dirs>>
    ELSE \E idx \in {SetItem(index, norm_pkg_name,
                            UpdatedEntry(Get(index, norm_pkg_name), version, link,
                                         norm_pkg_name))} :
         \E r \in {Run(UpdateEffects(norm_pkg_name), 1, k, idx, files, dirs, <<>>)} :
            /\ index' = idx
            /\ files' = r.files
            /\ dirs' = r.dirs
            /\ last' = Call("update", pkg_name, version, NoArg, link,
                            r.result, r.trace)

\* Mutant of Delete: no check; the entry is popped if there is one.
DeleteUnchecked(pkg_name, k) ==
    LET norm_pkg_name == normalize(pkg_name) IN
    \E idx \in {Pop(index, norm_pkg_name)} :
    \E r \in {Run(DeleteEffects(norm_pkg_name), 1, k, idx, files, dirs, <<>>)} :
        /\ index' = idx
        /\ files' = r.files
        /\ dirs' = r.dirs
        /\ last' = Call("delete", pkg_name, NoArg, NoArg, NoArg, r.result, r.trace)

Delete(pkg_name, k) ==
    LET norm_pkg_name == normalize(pkg_name) IN
    IF ~is_package_registered(index, norm_pkg_name)
    THEN /\ last' = Call("delete", pkg_name, NoArg, NoArg, NoArg,
                         "not_registered", <<>>)
         /\ UNCHANGED <<index, files, dirs>>
    ELSE \E idx \in {Pop(index, norm_pkg_name)} :
         \E r \in {Run(DeleteEffects(norm_pkg_name), 1, k, idx, files, dirs, <<>>)} :
            /\ index' = idx
            /\ files' = r.files
            /\ dirs' = r.dirs
            /\ last' = Call("delete", pkg_name, NoArg, NoArg, NoArg,
                            r.result, r.trace)

(***************************************************************************)
(* Spec: every file system call succeeds unless the state makes it fail.   *)
(***************************************************************************)
\* A call that raises at the registration check never reads its other
\* arguments, so it is enumerated once per name.
RegisterOp ==
    \E d \in Names :
        IF is_package_registered(index, normalize(d))
        THEN Register(d, NoArg, NoArg, NoArg, 0)
        ELSE \E v \in Versions, h \in Homepages, l \in Links :
                 Register(d, v, h, l, Len(RegisterEffects(normalize(d))))

UpdateOp ==
    \E d \in Names :
        IF ~is_package_registered(index, normalize(d))
        THEN Update(d, NoArg, NoArg, 0)
        ELSE \E v \in Versions, l \in Links :
                 Update(d, v, l, Len(UpdateEffects(normalize(d))))

DeleteOp ==
    \E d \in Names : Delete(d, Len(DeleteEffects(normalize(d))))

Next ==
    \/ RegisterOp /\ UNCHANGED calls
    \/ UpdateOp /\ UNCHANGED calls
    \/ DeleteOp /\ UNCHANGED calls
    \/ Restart /\ UNCHANGED calls

Spec == Init /\ [][Next]_vars

(***************************************************************************)
(* SpecFault: in addition, a call may be stopped by a storage failure or   *)
(* a crash after any number of its file system effects.  Behaviours are    *)
(* cut at MaxCalls steps.                                                  *)
(***************************************************************************)
RegisterFault ==
    \E d \in Names, v \in Versions, h \in Homepages, l \in Links :
        /\ ~is_package_registered(index, normalize(d))
        /\ \E k \in 0 .. (Len(RegisterEffects(normalize(d))) - 1) :
              Register(d, v, h, l, k)

UpdateFault ==
    \E d \in Names, v \in Versions, l \in Links :
        /\ is_package_registered(index, normalize(d))
        /\ \E k \in 0 .. (Len(UpdateEffects(normalize(d))) - 1) :
              Update(d, v, l, k)

DeleteFault ==
    \E d \in Names :
        /\ is_package_registered(index, normalize(d))
        /\ \E k \in 0 .. (Len(DeleteEffects(normalize(d))) - 1) : Delete(d, k)

Called(A) == calls < MaxCalls /\ A /\ calls' = calls + 1

NextFault ==
    \/ Called(RegisterOp)
    \/ Called(UpdateOp)
    \/ Called(DeleteOp)
    \/ Called(Restart)
    \/ Called(RegisterFault)
    \/ Called(UpdateFault)
    \/ Called(DeleteFault)

SpecFault == Init /\ [][NextFault]_vars

(***************************************************************************)
(* SpecCrash: the process may die inside register or update after the      *)
(* index file was written and before the last HTML write.  A dead process  *)
(* makes no further call: the next step is a new process (Restart).        *)
(* Behaviours are cut at MaxCalls steps.                                   *)
(***************************************************************************)
RegisterCrash ==
    \E d \in Names, v \in Versions, h \in Homepages, l \in Links :
        /\ ~is_package_registered(index, normalize(d))
        /\ \E k \in 1 .. (Len(RegisterEffects(normalize(d))) - 1) :
              Register(d, v, h, l, k)

UpdateCrash ==
    \E d \in Names, v \in Versions, l \in Links :
        /\ is_package_registered(index, normalize(d))
        /\ \E k \in 1 .. (Len(UpdateEffects(normalize(d))) - 1) :
              Update(d, v, l, k)

Running(A) == Called(last.result # "StorageIOError" /\ A)

NextCrash ==
    \/ Running(RegisterOp)
    \/ Running(UpdateOp)
    \/ Running(DeleteOp)
    \/ Running(RegisterCrash)
    \/ Running(UpdateCrash)
    \/ Called(Restart)

SpecCrash == Init /\ [][NextCrash]_vars

(***************************************************************************)
(* SpecNormalize: normalize as a pure function.  The initial states hold   *)
(* every string of at most MaxStrLen characters over Alphabet in last.d;   *)
(* each step applies normalize to the last value and appends the result    *)
(* to last.trace, twice at most.                                           *)
(***************************************************************************)
Alphabet == {"A", "a", "B", "1", "-", "_", "."}

Strings == UNION {[1 .. m -> Alphabet] : m \in 0 .. MaxStrLen}

InitNormalize ==
    /\ index = EmptyDict
    /\ files = <<>>
    /\ dirs = {Cwd}
    /\ calls = 0
    /\ last \in {Call("normalize", x, NoArg, NoArg, NoArg, "ok", <<>>) : x \in Strings}

ApplyNormalize ==
    /\ last.op = "normalize"
    /\ Len(last.trace) < 2
    /\ last' = [last EXCEPT !.trace =
                    Append(@, normalize(IF @ = <<>> THEN last.d ELSE @[Len(@)]))]
    /\ UNCHANGED <<index, files, dirs, calls>>

SpecNormalize == InitNormalize /\ [][ApplyNormalize]_vars

(***************************************************************************)
(* SpecMain: the entry point main(), one process per run.  MainStart is    *)
(* lines 104-105, taken when no run is under way: a new ActionHandler,     *)
(* then the read of PKG_ACTION, which raises KeyError when the variable    *)
(* is not set.  The next step is the                                       *)
(* branch the selector picks; it reads the parameters of its operation     *)
(* from the environment, in the order of the keyword arguments, and calls  *)
(* the handler, or raises KeyError at the first variable that is not set.  *)
(* A selector that matches no branch falls through to the end of main.     *)
(* For op = "main", last.result is the selector read, "ok" after main      *)
(* returned, or "KeyError" with the variable's name in last.d.             *)
(***************************************************************************)
Unset == <<"(unset)">>

ActionValues == {<<"REGISTER">>, <<"UPDATE">>, <<"DELETE">>, <<"PUBLISH">>}

Environ(values) == values \cup {Unset}

KeyError(variable) ==
    Call("main", <<variable>>, NoArg, NoArg, NoArg, "KeyError", <<>>)

MainStart ==
    /\ last.op = "main" => last.result \in {"ok", "KeyError"}
    /\ index' = LoadIndex(files)
    /\ UNCHANGED <<files, dirs>>
    /\ \E action \in Environ(ActionValues) :
          last' = IF action = Unset
                  THEN KeyError("PKG_ACTION")
                  ELSE Call("main", NoArg, NoArg, NoArg, NoArg, action[1], <<>>)

Raise(variable) ==
    /\ last' = KeyError(variable)
    /\ UNCHANGED <<index, files, dirs>>

MainRegister ==
    /\ last.op = "main"
    /\ last.result = "REGISTER"
    /\ \E d \in Environ(Names), v \in Environ(Versions),
          h \in Environ(Homepages), l \in Environ(Links) :
          IF d = Unset THEN Raise("PKG_NAME")
          ELSE IF v = Unset THEN Raise("PKG_VERSION")
          ELSE IF h = Unset THEN Raise("PKG_HOMEPAGE")
          ELSE IF l = Unset THEN Raise("PKG_LINK")
          ELSE Register(d, v, h, l, Len(RegisterEffects(normalize(d))))

MainDelete ==
    /\ last.op = "main"
    /\ last.result = "DELETE"
    /\ \E d \in Environ(Names) :
          IF d = Unset THEN Raise("PKG_NAME")
          ELSE Delete(d, Len(DeleteEffects(normalize(d))))

MainUpdate ==
    /\ last.op = "main"
    /\ last.result = "UPDATE"
    /\ \E d \in Environ(Names), v \in Environ(Versions), l \in Environ(Links) :
          IF d = Unset THEN Raise("PKG_NAME")
          ELSE IF v = Unset THEN Raise("PKG_VERSION")
          ELSE IF l = Unset THEN Raise("PKG_LINK")
          ELSE Update(d, v, l, Len(UpdateEffects(normalize(d))))

\* Mutant of MainReturn: the last branch is an else, it takes every other
\* selector for DELETE.
MainReturnElseDelete ==
    /\ last.op = "main"
    /\ last.result \notin {"REGISTER", "DELETE", "UPDATE", "KeyError", "ok"}
    /\ \E d \in Names : Delete(d, Len(DeleteEffects(normalize(d))))

MainReturn ==
    /\ last.op = "main"
    /\ last.result \notin {"REGISTER", "DELETE", "UPDATE", "KeyError", "ok"}
    /\ last' = Call("main", NoArg, NoArg, NoArg, NoArg, "ok", <<>>)
    /\ UNCHANGED <<index, files, dirs>>

NextMain ==
    \/ MainStart /\ UNCHANGED calls
    \/ MainRegister /\ UNCHANGED calls
    \/ MainDelete /\ UNCHANGED calls
    \/ MainUpdate /\ UNCHANGED calls
    \/ MainReturn /\ UNCHANGED calls

SpecMain == Init /\ [][NextMain]_vars

(***************************************************************************)
(* Vocabulary of the properties.                                           *)
(***************************************************************************)
Mutating == {"register", "update", "delete"}

Succeeded(op) == last.op = op /\ last.result = "ok"

EndsWith(s, t) ==
    /\ Len(s) >= Len(t)
    /\ SubSeq(s, Len(s) - Len(t) + 1, Len(s)) = t

\* "#egg=" + n + "-" + v, spelled out independently of the model's EggLink.
Fragment(n, v) == <<"#", "e", "g", "g", "=">> \o n \o <<"-">> \o v

IndexFilePersists(idx) ==
    /\ PACKAGE_INDEX \in DOMAIN files
    /\ files[PACKAGE_INDEX].kind = "json"
    /\ JsonLoad(files[PACKAGE_INDEX].data) = idx

IndexPageRenders(idx) ==
    /\ INDEX_TEMPLATE \in DOMAIN files
    /\ files[INDEX_TEMPLATE] = RenderIndex(idx)

PkgPageRenders(n, entry) ==
    /\ PkgDir(n) \in dirs
    /\ PkgPage(n) \in DOMAIN files
    /\ files[PkgPage(n)] = RenderPkg(entry)

(***************************************************************************)
(* C1: after register(d, v, h, l) succeeds (so normalize(d) was not a key),*)
(* the index maps n = normalize(d) to exactly {name: d, version: v,        *)
(* homepage: h, link: l + "#egg=" + n + "-" + v}, the index file holds the *)
(* same mapping, the package page n/index.html is rendered from that       *)
(* entry, and the index page is rendered from the full mapping.            *)
(***************************************************************************)
C1_RegisterPost ==
    Succeeded("register") =>
        LET n == normalize(last.d) IN
        /\ Has(index, n)
        /\ index[n] = [name |-> last.d, version |-> last.v, homepage |-> last.h,
                       link |-> last.l \o Fragment(n, last.v)]
        /\ IndexFilePersists(index)
        /\ PkgPageRenders(n, index[n])
        /\ IndexPageRenders(index)

(***************************************************************************)
(* C2: isRegistered normalizes its argument: for every string x,           *)
(* isRegistered(x) is true exactly when normalize(x) is a key of the       *)
(* index.                                                                  *)
(***************************************************************************)
C2_IsRegisteredNormalizes ==
    \A x \in Names : is_package_registered(index, x) <=> Has(index, normalize(x))

(***************************************************************************)
(* C3: register(d, ...) with normalize(d) already a key fails with the     *)
(* already-registered error and leaves the mapping, the index file, the    *)
(* index page and every package page as they were.                         *)
(***************************************************************************)
C3_RegisterExactlyOnce ==
    [][ (last'.op = "register" /\ Has(index, normalize(last'.d))) =>
            /\ last'.result = "already_registered"
            /\ UNCHANGED <<index, files, dirs>> ]_vars

C3_Witness ==
    /\ last.op = "register"
    /\ last.result = "already_registered"
    /\ Has(index, normalize(last.d))
    /\ index[normalize(last.d)].name # last.d

(***************************************************************************)
(* C4: update(d, v, l) and delete(d) with normalize(d) not a key fail with *)
(* the not-registered error and change neither the mapping nor any file    *)
(* or directory.                                                           *)
(***************************************************************************)
C4_UnknownNameNoMutation ==
    [][ (last'.op \in {"update", "delete"} /\ ~Has(index, normalize(last'.d))) =>
            /\ last'.result = "not_registered"
            /\ UNCHANGED <<index, files, dirs>> ]_vars

C4_Witness ==
    /\ last.op \in {"update", "delete"}
    /\ last.result = "not_registered"
    /\ ~Has(index, normalize(last.d))
    /\ index # EmptyDict
    /\ PACKAGE_INDEX \in DOMAIN files

(***************************************************************************)
(* C5: after update(d, v, l) succeeds, the entry at n = normalize(d) has   *)
(* version v and link exactly l + "#egg=" + n + "-" + v, and the index     *)
(* file and the package page n/index.html show the new version and link.   *)
(***************************************************************************)
C5_UpdatePost ==
    Succeeded("update") =>
        LET n == normalize(last.d) IN
        /\ Has(index, n)
        /\ index[n].version = last.v
        /\ index[n].link = last.l \o Fragment(n, last.v)
        /\ IndexFilePersists(index)
        /\ PkgPageRenders(n, index[n])
        /\ files[PkgPage(n)].context.version = last.v
        /\ files[PkgPage(n)].context.link = last.l \o Fragment(n, last.v)

C5_Witness ==
    /\ Succeeded("update")
    /\ Cardinality(DOMAIN index) >= 2
    /\ last.v = VersionList[2]
    /\ last.l = <<"m">>

(***************************************************************************)
(* C6: in every reachable state, every entry stored under key n with       *)
(* version v has a link that ends with "#egg=" + n + "-" + v.              *)
(***************************************************************************)
C6_LinkEmbedsKeyAndVersion ==
    /\ \A n \in DOMAIN index :
           EndsWith(index[n].link, Fragment(n, index[n].version))
    /\ \A n \in DOMAIN LoadIndex(files) :
           EndsWith(LoadIndex(files)[n].link,
                    Fragment(n, LoadIndex(files)[n].version))

C6_Witness ==
    /\ Succeeded("update")
    /\ \E n \in DOMAIN index : index[n].name # n /\ n # normalize(last.d)
    /\ index[normalize(last.d)].version # VersionList[1]

(***************************************************************************)
(* C7: name and homepage of an entry never change while the entry exists,  *)
(* and update changes nothing but the version and link of its own entry.   *)
(***************************************************************************)
C7_NameHomepageImmutable ==
    [][ /\ \A n \in DOMAIN index \cap DOMAIN index' :
               /\ index'[n].name = index[n].name
               /\ index'[n].homepage = index[n].homepage
        /\ (last'.op = "update" /\ last'.result # "not_registered") =>
               /\ DOMAIN index' = DOMAIN index
               /\ \A n \in DOMAIN index \ {normalize(last'.d)} :
                      index'[n] = index[n] ]_vars

C7_Witness ==
    /\ Succeeded("update")
    /\ index[normalize(last.d)].name # last.d
    /\ index[normalize(last.d)].name # normalize(last.d)
    /\ index[normalize(last.d)].homepage \in Homepages

(***************************************************************************)
(* C8: after every successful register, update or delete the index file    *)
(* equals the in-memory mapping, the index page is the rendering of that   *)
(* mapping, and the package pages are exactly those of the index keys,     *)
(* each the rendering of its entry.                                        *)
(***************************************************************************)
C8_DiskAgreesAfterSuccess ==
    (last.op \in Mutating /\ last.result = "ok") =>
        /\ IndexFilePersists(index)
        /\ IndexPageRenders(index)
        /\ \A n \in DOMAIN index : PkgPageRenders(n, index[n])
        /\ \A dir \in dirs \ {Cwd} : Has(index, dir)

(***************************************************************************)
(* C9: after delete(d) succeeds, n = normalize(d) is a key neither of the  *)
(* mapping nor of the index file, the directory n and its index.html are   *)
(* gone, the index page is rendered from the reduced mapping, no package   *)
(* page was written, and isRegistered on the name is false.                *)
(***************************************************************************)
C9_DeletePost ==
    Succeeded("delete") =>
        LET n == normalize(last.d) IN
        /\ ~Has(index, n)
        /\ ~Has(LoadIndex(files), n)
        /\ PkgDir(n) \notin dirs
        /\ PkgPage(n) \notin DOMAIN files
        /\ IndexPageRenders(index)
        /\ \A i \in DOMAIN last.trace : last.trace[i].eff # "write_pkg_page"
        /\ ~is_package_registered(index, n)
        /\ ~is_package_registered(index, last.d)

C9_Witness ==
    /\ Succeeded("delete")
    /\ index # EmptyDict
    /\ last.d # normalize(last.d)

(***************************************************************************)
(* C10: after a successful register, update or delete, a store constructed *)
(* from the index file has the same keys and the same name, version,       *)
(* homepage and link values as the in-memory mapping; a store constructed  *)
(* without an index file is empty.                                         *)
(***************************************************************************)
C10_RestartRoundTrip ==
    /\ (last.op \in Mutating /\ last.result = "ok") =>
           /\ PACKAGE_INDEX \in DOMAIN files
           /\ DOMAIN LoadIndex(files) = DOMAIN index
           /\ \A n \in DOMAIN index :
                  /\ LoadIndex(files)[n].name = index[n].name
                  /\ LoadIndex(files)[n].version = index[n].version
                  /\ LoadIndex(files)[n].homepage = index[n].homepage
                  /\ LoadIndex(files)[n].link = index[n].link
    /\ (last.op = "init" /\ PACKAGE_INDEX \notin DOMAIN files) => index = EmptyDict

C10_Witness ==
    /\ last.op = "init"
    /\ PACKAGE_INDEX \in DOMAIN files
    /\ Cardinality(DOMAIN index) >= 2
    /\ \E n \in DOMAIN index : index[n].name # n

(***************************************************************************)
(* C11: normalize is idempotent: normalize(normalize(x)) = normalize(x)    *)
(* for every string x over upper- and lower-case letters, digits and the   *)
(* separators "-", "_", ".".                                               *)
(***************************************************************************)
C11_NormalizeIdempotent ==
    (last.op = "normalize" /\ Len(last.trace) = 2) =>
        last.trace[2] = last.trace[1]

C11_Witness ==
    /\ last.op = "normalize"
    /\ Len(last.trace) = 2
    /\ last.trace[1] # last.d
    /\ \E i \in 1 .. (Len(last.d) - 1) : IsSep(last.d[i]) /\ IsSep(last.d[i + 1])
    /\ \E i \in DOMAIN last.d : last.d[i] = "B"

(***************************************************************************)
(* C12: normalize(x) is x with every maximal run of "-", "_", "." replaced *)
(* by one "-" and then lowercased: the result has no "_", no ".", no two   *)
(* adjacent "-" and no uppercase letter, and names that differ only in     *)
(* letter case or in the make-up of their separator runs get the same key. *)
(***************************************************************************)
Separators == {"-", "_", "."}

LowerCase(c) == IF c = "A" THEN "a" ELSE IF c = "B" THEN "b" ELSE c

OtherCase(c) ==
    IF c = "A" THEN "a" ELSE IF c = "a" THEN "A" ELSE IF c = "B" THEN "b" ELSE c

\* The positions of x that survive: every non-separator, and the first
\* character of every run of separators.
Kept(x) ==
    {i \in DOMAIN x : x[i] \notin Separators \/ i = 1 \/ x[i - 1] \notin Separators}

KeptAt(x, j) == CHOOSE i \in Kept(x) : Cardinality({m \in Kept(x) : m < i}) = j - 1

Collapse(x) ==
    [j \in 1 .. Cardinality(Kept(x)) |->
        IF x[KeptAt(x, j)] \in Separators THEN "-" ELSE LowerCase(x[KeptAt(x, j)])]

\* x with the character at i replaced by c, and x with c inserted at i.
Replaced(x, i, c) == [x EXCEPT ![i] = c]

Inserted(x, i, c) == SubSeq(x, 1, i) \o <<c>> \o SubSeq(x, i + 1, Len(x))

C12_NormalizeCollapses ==
    (last.op = "normalize" /\ last.trace # <<>>) =>
        LET x == last.d
            r == last.trace[1]
        IN /\ r = Collapse(x)
           /\ \A i \in DOMAIN r : r[i] \notin {"_", ".", "A", "B"}
           /\ \A i \in 1 .. (Len(r) - 1) : ~(r[i] = "-" /\ r[i + 1] = "-")
           /\ \A i \in DOMAIN x :
                  /\ normalize(Replaced(x, i, OtherCase(x[i]))) = r
                  /\ x[i] \in Separators =>
                         \A c \in Separators :
                             /\ normalize(Replaced(x, i, c)) = r
                             /\ normalize(Inserted(x, i, c)) = r

C12_Witness ==
    /\ last.op = "normalize"
    /\ last.trace # <<>>
    /\ last.d = <<"A", "_", ".">>
    /\ last.trace[1] = <<"a", "-">>

(***************************************************************************)
(* C13: main() treats an unknown and a missing action selector alike as a  *)
(* no-op: it returns without an error and changes neither the mapping nor  *)
(* the index file nor a rendered file; with REGISTER, UPDATE or DELETE it  *)
(* invokes exactly that one operation, once.                               *)
(* C13_SelectorNoOpOrOnce is the claim as stated.  The code raises         *)
(* KeyError when PKG_ACTION is not set, and when a parameter the selected  *)
(* operation reads is not set; C13_SelectorDispatch is the claim with      *)
(* these two cases ending in KeyError, nothing changed.                    *)
(***************************************************************************)
Selected == [register |-> "REGISTER", update |-> "UPDATE", delete |-> "DELETE"]

MainRead(action) == last.op = "main" /\ last.result = action

Raised(variables) ==
    /\ last'.op = "main"
    /\ last'.result = "KeyError"
    /\ \E variable \in variables : last'.d = <<variable>>

NewProcess ==
    /\ last'.op = "main"
    /\ last'.result \in {action[1] : action \in ActionValues} \cup {"KeyError"}
    /\ last'.result = "KeyError" => last'.d = <<"PKG_ACTION">>
    /\ index' = LoadIndex(files)
    /\ UNCHANGED <<files, dirs>>

UnknownIsNoOp ==
    MainRead("PUBLISH") =>
        /\ last'.op = "main"
        /\ last'.result = "ok"
        /\ UNCHANGED <<index, files, dirs>>

OnceThenExit ==
    (last.op \in Mutating \/ MainRead("ok") \/ MainRead("KeyError")) => NewProcess

C13_SelectorNoOpOrOnce ==
    [][/\ UnknownIsNoOp
       /\ ~Raised({"PKG_ACTION"})
       /\ \A op \in DOMAIN Selected : MainRead(Selected[op]) => last'.op = op
       /\ OnceThenExit]_vars

C13_SelectorDispatch ==
    [][/\ UnknownIsNoOp
       /\ Raised({"PKG_ACTION"}) => NewProcess
       /\ \A op \in DOMAIN Selected :
              MainRead(Selected[op]) =>
                  \/ last'.op = op
                  \/ /\ Raised({"PKG_NAME", "PKG_VERSION", "PKG_HOMEPAGE", "PKG_LINK"})
                     /\ UNCHANGED <<index, files, dirs>>
       /\ OnceThenExit]_vars

C13_Witness ==
    /\ last = KeyError("PKG_ACTION")
    /\ \E n \in Keys(index) : n # <<>>
    /\ index = LoadIndex(files)

(***************************************************************************)
(* C14: within every register, update and delete the order is fixed: the   *)
(* mapping is changed in memory, then the index file is written, and only  *)
(* then is rendered output touched (index page written, package page       *)
(* written, package directory created or removed).  The handlers change    *)
(* the mapping before their first file system effect; last.trace is the    *)
(* sequence of the effects that followed.                                  *)
(***************************************************************************)
TouchesRendered(e) == e.eff \in {"write_index_page", "mkdir", "write_pkg_page", "rmtree"}

C14_IndexFileBeforeRendered ==
    last.op \in Mutating =>
        \A i \in DOMAIN last.trace :
            TouchesRendered(last.trace[i]) =>
                \E j \in 1 .. (i - 1) : last.trace[j].eff = "write_index_file"

(***************************************************************************)
(* C15: a call stopped part-way leaves the disk as it was before the call, *)
(* or as the completed call would leave it, or with the index file holding *)
(* the new mapping and at most one rendered artifact not yet in its final  *)
(* form: rendered output never changes while the index file holds the old  *)
(* mapping, and never more than one rendered artifact lags.                *)
(***************************************************************************)
Stopped == last'.op \in Mutating /\ last'.result \in {"StorageIOError", "FileNotFoundError"}

EffectsOf(op, n) ==
    IF op = "delete" THEN DeleteEffects(n)
    ELSE IF op = "update" THEN UpdateEffects(n) ELSE RegisterEffects(n)

\* The files the call would have left had its remaining effects completed.
Completed ==
    LET effs == EffectsOf(last'.op, normalize(last'.d))
    IN Run(effs, Len(last'.trace) + 1, Len(effs), index', files', dirs', <<>>).files

SameAt(fs, gs, path) ==
    IF path \in DOMAIN fs THEN path \in DOMAIN gs /\ fs[path] = gs[path]
    ELSE path \notin DOMAIN gs

Lagging ==
    {path \in {INDEX_TEMPLATE, PkgPage(normalize(last'.d))} :
        ~SameAt(files', Completed, path)}

C15_OnlyOneArtifactLags ==
    [][(Stopped /\ <<files', dirs'>> # <<files, dirs>>) =>
           /\ PACKAGE_INDEX \in DOMAIN files'
           /\ files'[PACKAGE_INDEX] = JsonFile(index')
           /\ Cardinality(Lagging) <= 1]_vars

(***************************************************************************)
(* C16: no call changes the mapping in memory and then fails to persist    *)
(* it.  When a call ends, by returning or by raising (a failure to remove  *)
(* a package directory that does not exist included), the mapping is       *)
(* unchanged or the index file holds the changed mapping, so a mapping     *)
(* equal to the index file before the call is equal to it after the call.  *)
(***************************************************************************)
C16_MutationIsPersisted ==
    [][last'.op \in Mutating =>
           /\ index' = index \/ (/\ PACKAGE_INDEX \in DOMAIN files'
                                 /\ JsonLoad(files'[PACKAGE_INDEX].data) = index')
           /\ LoadIndex(files) = index => LoadIndex(files') = index']_vars

(***************************************************************************)
(* C17: crash repair.  When a register or update of p was cut off after    *)
(* the index file was written and before all HTML was written, the index   *)
(* file holds the new mapping, and after a restart any successful          *)
(* register, update or delete, of p or of another package, brings the      *)
(* HTML into agreement with it: the index page and the page of every       *)
(* indexed package, p included.  Stated over SpecCrash, where such crashes *)
(* are the only disturbance, and for mappings without the empty key.       *)
(***************************************************************************)
C17_CrashRepaired ==
    /\ (last.op \in Mutating /\ last.result = "StorageIOError") =>
           IndexFilePersists(index)
    /\ (last.op \in Mutating /\ last.result = "ok" /\ ~Has(index, <<>>)) =>
           /\ IndexFilePersists(index)
           /\ IndexPageRenders(index)
           /\ \A n \in Keys(index) : PkgPageRenders(n, index[n])

(***************************************************************************)
(* C18: a successful register or update writes the index file once, then   *)
(* the index page once, then that package's page once; a successful delete *)
(* writes the index file once, then the index page once, and no package    *)
(* page; the call writes nothing more, and it neither writes nor removes   *)
(* the page of any other package.                                          *)
(***************************************************************************)
IsWrite(e) == e.eff \in {"write_index_file", "write_index_page", "write_pkg_page"}

WritesOf(op, n) ==
    << [eff |-> "write_index_file", n |-> <<>>],
       [eff |-> "write_index_page", n |-> <<>>] >>
    \o (IF op = "delete" THEN <<>> ELSE << [eff |-> "write_pkg_page", n |-> n] >>)

OtherPagesUntouched(n) ==
    \A q \in (Keys(index) \cup Keys(index')) \ {n} :
        /\ SameAt(files, files', PkgPage(q))
        /\ PkgDir(q) \in dirs <=> PkgDir(q) \in dirs'

C18_WritesPerCall ==
    [][(last'.op \in Mutating /\ last'.result = "ok") =>
           /\ SelectSeq(last'.trace, IsWrite) = WritesOf(last'.op, normalize(last'.d))
           /\ OtherPagesUntouched(normalize(last'.d))]_vars

(***************************************************************************)
(* C19: the key set grows only by a successful register, by exactly        *)
(* normalize(d); it shrinks only by a successful delete, by exactly        *)
(* normalize(d); update never changes it; and every call on package n      *)
(* leaves the entries and the package pages of all other keys unchanged.   *)
(***************************************************************************)
KeySetFrame(n) ==
    /\ Keys(index') \ Keys(index) # {} =>
           /\ last'.op = "register"
           /\ last'.result = "ok"
           /\ Keys(index') = Keys(index) \cup {n}
    /\ Keys(index) \ Keys(index') # {} =>
           /\ last'.op = "delete"
           /\ last'.result = "ok"
           /\ Keys(index') = Keys(index) \ {n}
    /\ last'.op = "update" => Keys(index') = Keys(index)

OtherEntriesUnchanged(n) ==
    \A q \in Keys(index) \ {n} :
        /\ Has(index', q)
        /\ index'[q] = index[q]
        /\ SameAt(files, files', PkgPage(q))

C19_KeySetLifecycle ==
    [][last'.op \in Mutating =>
           /\ KeySetFrame(normalize(last'.d))
           /\ OtherEntriesUnchanged(normalize(last'.d))]_vars

(***************************************************************************)
(* C20: starting from the empty index, in every reachable state every key  *)
(* k of the index is the normal form of the display name stored under it,  *)
(* k = normalize(index[k].name), and is its own normal form,               *)
(* k = normalize(k).  The normal form is spelled by Collapse.              *)
(***************************************************************************)
C20_KeysAreNormalForms ==
    \A k \in Keys(index) :
        /\ k = Collapse(index[k].name)
        /\ k = Collapse(k)

C20_Witness ==
    /\ Has(index, <<"a">>)
    /\ index[<<"a">>].name = <<"A">>
    /\ Has(index, <<"-">>)
    /\ index[<<"-">>].name = <<"_">>
    /\ last.op = "update"
    /\ last.result = "ok"

====
